---- MODULE Spec2Model ----
(***************************************************************************)
(* Model of the UCP merchant client                                        *)
(* (skills/examples/ucp-merchant-agent/templates/basic-shopping-agent/     *)
(* ucp_client.py).  One UCPClient instance is shared by a bounded number   *)
(* of asyncio tasks.  A task runs atomically from one suspension point to  *)
(* the next: the only real suspensions are the HTTP requests (client.get / *)
(* client.post / client.patch) and the aclose() of the transport.  A call  *)
(* that has returned or raised hands its result to its caller in the same  *)
(* event-loop step, so no other task runs while a task is at "done".       *)
(*                                                                         *)
(* Python strings are modelled as sequences of tokens, so that rstrip and  *)
(* f-string concatenation are computed and not assumed.  Python dicts are  *)
(* functions with a string domain: d.get(k, default) is Get(d, k, default).*)
(***************************************************************************)
EXTENDS Integers, Sequences, FiniteSets, TLC

\* ------------------------------------------------------------------ bounds
NTasks == 2
MaxCalls == 4

Tasks == 1..NTasks

\* --------------------------------------------------------- string helpers
RECURSIVE rstrip(_)
rstrip(s) ==
    IF s # <<>> /\ s[Len(s)] = "/" THEN rstrip(SubSeq(s, 1, Len(s) - 1)) ELSE s

DigitChars == <<"0", "1", "2", "3", "4", "5", "6", "7", "8", "9">>

RECURSIVE IntStr(_)
IntStr(n) ==
    IF n < 10 THEN <<DigitChars[n + 1]>>
    ELSE IntStr(n \div 10) \o <<DigitChars[(n % 10) + 1]>>

EmptyDict == <<>>

Get(d, k, default) == IF k \in DOMAIN d THEN d[k] ELSE default

\* mutant: the key is read and left in the dict
PopKeep(d, k) == d

Pop(d, k) == [x \in DOMAIN d \ {k} |-> d[x]]

\* ------------------------------------------------------------- constants
UCP_VERSION == <<"2026-01-11">>
CK == <<"dev.ucp.shopping.checkout">>
VM == <<"version_mismatch">>
CNS == <<"capability_not_supported">>

\* ------------------------------------------------------------ exceptions
UCPError(code, message, details) ==
    [type |-> "UCPError", code |-> code, message |-> message,
     details |-> IF DOMAIN details = {} THEN EmptyDict ELSE details]

VersionError(agent_version, required_version) ==
    [type |-> "VersionError", code |-> VM,
     message |-> <<"Version mismatch: agent=">> \o agent_version
                 \o <<", required=">> \o required_version,
     details |-> [agent_version |-> agent_version,
                  required_version |-> required_version],
     agent_version |-> agent_version,
     required_version |-> required_version]

CapabilityError(capability) ==
    [type |-> "CapabilityError", code |-> CNS,
     message |-> <<"Capability not supported: ">> \o capability,
     details |-> [capability |-> capability],
     capability |-> capability]

\* Exceptions that are not UCPErrors: details.get on a value that is no dict,
\* and a request on an httpx client that aclose() has already closed.
AttributeError == [type |-> "AttributeError"]
RuntimeError == [type |-> "RuntimeError"]

Raised(e) == [kind |-> "raised", error |-> e]
Returned(v) == [kind |-> "returned", value |-> v]
NoResult == [kind |-> "none"]

\* ------------------------------------------------------ inputs: merchants
U1 == <<"https://m1">>
U1s == <<"https://m1", "/">>
URLs == {U1, U1s}

WellKnown1 ==
    [merchant |-> [name |-> <<"Shop">>],
     ucp |-> [version |-> UCP_VERSION,
              capabilities |-> <<[name |-> CK, version |-> UCP_VERSION]>>,
              payment_handlers |->
                  <<[id |-> <<"h1">>, type |-> <<"com.google.pay">>]>>]]

WellKnown2 ==
    [merchant |-> [name |-> <<"Shop">>,
                   rest_endpoint |-> <<"https://api", "/">>],
     ucp |-> [capabilities |-> <<[name |-> CK], [name |-> <<"dev.ucp.x">>]>>,
              payment_handlers |-> <<[type |-> <<"card">>]>>]]

WellKnown3 ==
    [ucp |-> [version |-> UCP_VERSION,
              capabilities |-> <<[name |-> <<"dev.ucp.x">>]>>]]

WellKnownBodies == {WellKnown1, WellKnown2, WellKnown3}

\* A session that has reached a terminal status.
CompletedSession == [id |-> <<"s1">>, status |-> <<"completed">>]

SessionBodies ==
    {[id |-> <<"s1">>, status |-> <<"ready">>, currency |-> <<"EUR">>,
      line_items |-> <<[sku |-> <<"a">>, quantity |-> 2]>>,
      payment_handlers |-> <<[type |-> <<"other">>]>>,
      merchant_url |-> <<"https://evil">>],
     [line_items |-> <<[sku |-> <<"a">>]>>],
     CompletedSession}

OrderBodies ==
    {[id |-> <<"o1">>, status |-> <<"confirmed">>, total_cents |-> 500,
      currency |-> <<"EUR">>, confirmation_number |-> <<"c1">>],
     [confirmation_number |-> <<"c1">>]}

\* ------------------------------------------------------ inputs: responses
\* shape is the JSON type information of the body: "text" is a body that is
\* no JSON, "nonobj" a JSON value that is no object, "baderror" an object
\* whose "error" is no object, "baddetails" one whose error.details is no
\* object, "obj" the documented shape.
ErrData ==
    {[error |-> [code |-> VM, message |-> <<"too old">>,
                 details |-> [required_version |-> <<"2027-01-01">>]]],
     [error |-> [code |-> VM]],
     [error |-> [code |-> CNS, message |-> <<"no such capability">>,
                 details |-> [capability |-> <<"dev.ucp.x">>]]],
     [error |-> [code |-> <<"out_of_stock">>, message |-> <<"sold out">>,
                 details |-> [sku |-> <<"a">>]]],
     [detail |-> <<"not found">>]}

ErrPayloads ==
    {[shape |-> "text", text |-> <<>>, data |-> EmptyDict],
     [shape |-> "text", text |-> <<"oops">>, data |-> EmptyDict],
     [shape |-> "nonobj", text |-> <<"[]">>, data |-> EmptyDict],
     [shape |-> "baderror", text |-> <<"{error:str}">>, data |-> EmptyDict],
     [shape |-> "baddetails", text |-> <<"{..}">>,
      data |-> [error |-> [code |-> VM, details |-> <<"str">>]]]}
    \cup {[shape |-> "obj", text |-> <<"{..}">>, data |-> d] : d \in ErrData}

ErrResponse(s, p) ==
    [status_code |-> s, shape |-> p.shape, text |-> p.text, data |-> p.data]

\* every payload with status 409, and two of them with status 500 as well
ErrResponses ==
    {ErrResponse(409, p) : p \in ErrPayloads}
    \cup {ErrResponse(500, p) :
             p \in {q \in ErrPayloads :
                       \/ q.shape = "text" /\ q.text = <<>>
                       \/ q.shape = "obj" /\ "error" \in DOMAIN q.data
                          /\ "message" \in DOMAIN q.data.error
                          /\ q.data.error.code = VM}}

OkResponse(body) ==
    [status_code |-> 200, shape |-> "obj", text |-> <<"{..}">>, data |-> body]

Causes == {<<"timed out">>, <<"connection refused">>}

Response(r) == [kind |-> "response", response |-> r]
RequestError(cause) == [kind |-> "request_error", cause |-> cause]
NoOutcome == [kind |-> "none"]

FailureOutcomes ==
    {Response(r) : r \in ErrResponses} \cup {RequestError(c) : c \in Causes}

\* The failures a merchant produces while several calls overlap: one
\* structured error, one empty body, one connection failure.
CoreFailures ==
    {Response(ErrResponse(409,
        [shape |-> "obj", text |-> <<"{..}">>,
         data |-> [error |-> [code |-> VM, message |-> <<"too old">>,
                   details |-> [required_version |-> <<"2027-01-01">>]]]])),
     Response(ErrResponse(500,
        [shape |-> "text", text |-> <<>>, data |-> EmptyDict])),
     RequestError(<<"timed out">>)}

\* The two environments of the client: NTasks calls that may overlap, made
\* by NTasks tasks for one merchant URL against a merchant with the core
\* failures, and a single caller that makes MaxCalls calls, one after the
\* other, for every merchant URL against a merchant that can answer with
\* every failure; and a single caller of a merchant that stores sessions
\* faithfully: it answers create with the session it has stored for the
\* line items sent, and update with that session as patched.
Environments ==
    {[tasks |-> Tasks, wide |-> FALSE, budget |-> NTasks, urls |-> {U1},
      faithful |-> FALSE],
     [tasks |-> {1}, wide |-> TRUE, budget |-> MaxCalls, urls |-> URLs,
      faithful |-> FALSE],
     [tasks |-> {1}, wide |-> FALSE, budget |-> MaxCalls, urls |-> URLs,
      faithful |-> TRUE]}

is_success(response) == response.status_code \div 100 = 2

\* ---------------------------------------------------------------- parsing
\* mutant: the REST endpoint is always the merchant URL
MerchantProfile_own_url(data, merchant_url) ==
    LET ucp_data == Get(data, "ucp", EmptyDict)
        merchant_data == Get(data, "merchant", EmptyDict)
        caps == Get(ucp_data, "capabilities", <<>>)
        handlers == Get(ucp_data, "payment_handlers", <<>>)
    IN [name |-> Get(merchant_data, "name", <<"Unknown">>),
        description |-> Get(merchant_data, "description", <<>>),
        rest_endpoint |-> merchant_url,
        ucp_version |-> Get(ucp_data, "version", <<>>),
        capabilities |->
            [i \in 1..Len(caps) |->
                [name |-> caps[i].name,
                 version |-> Get(caps[i], "version", <<>>)]],
        payment_handlers |->
            [i \in 1..Len(handlers) |->
                [id |-> Get(handlers[i], "id", <<>>),
                 type |-> Get(handlers[i], "type", <<>>)]],
        extensions |-> Get(ucp_data, "extensions", <<>>)]

\* discover, lines 187-211: the profile built from a 2xx well-known body.
MerchantProfile(data, merchant_url) ==
    LET ucp_data == Get(data, "ucp", EmptyDict)
        merchant_data == Get(data, "merchant", EmptyDict)
        caps == Get(ucp_data, "capabilities", <<>>)
        handlers == Get(ucp_data, "payment_handlers", <<>>)
    IN [name |-> Get(merchant_data, "name", <<"Unknown">>),
        description |-> Get(merchant_data, "description", <<>>),
        rest_endpoint |-> Get(merchant_data, "rest_endpoint", merchant_url),
        ucp_version |-> Get(ucp_data, "version", <<>>),
        capabilities |->
            [i \in 1..Len(caps) |->
                [name |-> caps[i].name,
                 version |-> Get(caps[i], "version", <<>>)]],
        payment_handlers |->
            [i \in 1..Len(handlers) |->
                [id |-> Get(handlers[i], "id", <<>>),
                 type |-> Get(handlers[i], "type", <<>>)]],
        extensions |-> Get(ucp_data, "extensions", <<>>)]

\* mutant: merchant_url and payment_handlers of the body are preferred
_parse_checkout_session_from_body(data, merchant_url, payment_handlers) ==
    LET items == Get(data, "line_items", <<>>)
    IN [id |-> Get(data, "id", <<>>),
        status |-> Get(data, "status", <<"incomplete">>),
        merchant_url |-> Get(data, "merchant_url", merchant_url),
        line_items |->
            [i \in 1..Len(items) |->
                [sku |-> Get(items[i], "sku", <<>>),
                 quantity |-> Get(items[i], "quantity", 0)]],
        subtotal_cents |-> Get(data, "subtotal_cents", 0),
        total_cents |-> Get(data, "total_cents", 0),
        currency |-> Get(data, "currency", <<"USD">>),
        payment_handlers |-> Get(data, "payment_handlers", payment_handlers)]

\* created_at, expires_at and terms are left out: they read the clock and no
\* modelled operation depends on them.
_parse_checkout_session(data, merchant_url, payment_handlers) ==
    LET items == Get(data, "line_items", <<>>)
    IN [id |-> Get(data, "id", <<>>),
        status |-> Get(data, "status", <<"incomplete">>),
        merchant_url |-> merchant_url,
        line_items |->
            [i \in 1..Len(items) |->
                [sku |-> Get(items[i], "sku", <<>>),
                 quantity |-> Get(items[i], "quantity", 0)]],
        subtotal_cents |-> Get(data, "subtotal_cents", 0),
        total_cents |-> Get(data, "total_cents", 0),
        currency |-> Get(data, "currency", <<"USD">>),
        payment_handlers |-> payment_handlers]

\* The Order that complete_checkout builds, lines 369-375.
\* confirmation_number is None when absent: an Order without that field.
Order(data) ==
    LET base == [id |-> Get(data, "id", <<>>),
                 status |-> Get(data, "status", <<"unknown">>),
                 total_cents |-> Get(data, "total_cents", 0),
                 currency |-> Get(data, "currency", <<"USD">>)]
    IN IF "confirmation_number" \in DOMAIN data
       THEN [k \in DOMAIN base \cup {"confirmation_number"} |->
                IF k = "confirmation_number" THEN data.confirmation_number
                ELSE base[k]]
       ELSE base

\* mutant: get_order reports an order without a status as pending and
\* without a currency as having none
Order_get_order_strict(data) ==
    LET base == [id |-> Get(data, "id", <<>>),
                 status |-> Get(data, "status", <<"pending">>),
                 total_cents |-> Get(data, "total_cents", 0),
                 currency |-> Get(data, "currency", <<>>)]
    IN IF "confirmation_number" \in DOMAIN data
       THEN [k \in DOMAIN base \cup {"confirmation_number"} |->
                IF k = "confirmation_number" THEN data.confirmation_number
                ELSE base[k]]
       ELSE base

\* The Order that get_order builds, lines 403-409.
Order_get_order(data) ==
    LET base == [id |-> Get(data, "id", <<>>),
                 status |-> Get(data, "status", <<"unknown">>),
                 total_cents |-> Get(data, "total_cents", 0),
                 currency |-> Get(data, "currency", <<"USD">>)]
    IN IF "confirmation_number" \in DOMAIN data
       THEN [k \in DOMAIN base \cup {"confirmation_number"} |->
                IF k = "confirmation_number" THEN data.confirmation_number
                ELSE base[k]]
       ELSE base

\* ----------------------------------------------------------- error mapping
\* mutant: the structured codes are honoured for status 409 only
_handle_error_response_by_status(response) ==
    LET parsed == response.shape \in {"obj", "baddetails"}
        error == Get(response.data, "error", EmptyDict)
        code == IF parsed /\ response.status_code = 409
                THEN Get(error, "code", <<"unknown_error">>)
                ELSE <<"http_">> \o IntStr(response.status_code)
        message == IF parsed THEN Get(error, "message", <<"Unknown error">>)
                   ELSE IF response.text # <<>> THEN response.text
                   ELSE <<"Unknown error">>
        details == IF parsed THEN Get(error, "details", EmptyDict)
                   ELSE EmptyDict
        isdict == response.shape # "baddetails"
    IN IF code = VM
       THEN IF isdict
            THEN VersionError(UCP_VERSION,
                              Get(details, "required_version", <<"unknown">>))
            ELSE AttributeError
       ELSE IF code = CNS
       THEN IF isdict
            THEN CapabilityError(Get(details, "capability", <<"unknown">>))
            ELSE AttributeError
       ELSE UCPError(code, message, details)

\* mutant: the synthesized message is the raw body text, empty or not
_handle_error_response_raw_text(response) ==
    LET parsed == response.shape \in {"obj", "baddetails"}
        error == Get(response.data, "error", EmptyDict)
        code == IF parsed THEN Get(error, "code", <<"unknown_error">>)
                ELSE <<"http_">> \o IntStr(response.status_code)
        message == IF parsed THEN Get(error, "message", <<"Unknown error">>)
                   ELSE response.text
        details == IF parsed THEN Get(error, "details", EmptyDict)
                   ELSE EmptyDict
        isdict == response.shape # "baddetails"
    IN IF code = VM
       THEN IF isdict
            THEN VersionError(UCP_VERSION,
                              Get(details, "required_version", <<"unknown">>))
            ELSE AttributeError
       ELSE IF code = CNS
       THEN IF isdict
            THEN CapabilityError(Get(details, "capability", <<"unknown">>))
            ELSE AttributeError
       ELSE UCPError(code, message, details)

_handle_error_response(response) ==
    LET parsed == response.shape \in {"obj", "baddetails"}
        error == Get(response.data, "error", EmptyDict)
        code == IF parsed THEN Get(error, "code", <<"unknown_error">>)
                ELSE <<"http_">> \o IntStr(response.status_code)
        message == IF parsed THEN Get(error, "message", <<"Unknown error">>)
                   ELSE IF response.text # <<>> THEN response.text
                   ELSE <<"Unknown error">>
        details == IF parsed THEN Get(error, "details", EmptyDict)
                   ELSE EmptyDict
        isdict == response.shape # "baddetails"
    IN IF code = VM
       THEN IF isdict
            THEN VersionError(UCP_VERSION,
                              Get(details, "required_version", <<"unknown">>))
            ELSE AttributeError
       ELSE IF code = CNS
       THEN IF isdict
            THEN CapabilityError(Get(details, "capability", <<"unknown">>))
            ELSE AttributeError
       ELSE UCPError(code, message, details)

\* discover, lines 176-185.
DiscoverFailure(outcome) ==
    IF outcome.kind = "request_error"
    THEN UCPError(<<"network_error">>,
                  <<"Network error during discovery: ">> \o outcome.cause,
                  EmptyDict)
    ELSE UCPError(<<"discovery_failed">>,
                  <<"Failed to discover merchant: ">>
                      \o IntStr(outcome.response.status_code),
                  EmptyDict)

\* mutant: a connection failure is reported like an unreadable response
WireFailureUnknown(outcome) ==
    IF outcome.kind = "request_error"
    THEN UCPError(<<"unknown_error">>, <<"Unknown error">>, EmptyDict)
    ELSE _handle_error_response(outcome.response)

\* the except clauses shared by create_checkout, update_checkout,
\* complete_checkout and get_order.
WireFailure(outcome) ==
    IF outcome.kind = "request_error"
    THEN UCPError(<<"network_error">>,
                  <<"Network error: ">> \o outcome.cause, EmptyDict)
    ELSE _handle_error_response(outcome.response)

Failed(outcome) ==
    outcome.kind = "request_error" \/ ~is_success(outcome.response)

\* ------------------------------------------------------------------ state
VARIABLES
    cache,      \* self._merchant_cache: merchant_url -> MerchantProfile
    http,       \* self._http_client: 0 is None, n > 0 the n-th AsyncClient
    ninst,      \* number of AsyncClient instances created so far
    released,   \* the instances on which aclose() has been called
    pc,         \* per task: "idle", "disc_wait", "op_wait", "close_wait", "done"
    call,       \* per task: the operation in progress and its arguments
    client,     \* per task: the local variable client of the operation
    merchant,   \* per task: the local variable merchant (result of discover)
    req,        \* per task: the request the task has in flight / sent last
    resp,       \* per task: the outcome of the last wire call of this call
    result,     \* per task: what the call returned or raised
    gets,       \* per task: well-known GETs sent within this call
    sends,      \* per task: requests sent to the operation's endpoint
    calls,      \* number of calls started (bounded by env.budget)
    env,        \* the environment: the tasks that call, the merchant's failures
    succeeded,  \* history: the merchant URLs whose discovery has succeeded
    hist,       \* history, per task: when its call began and what preceded it
    prev,       \* history: the discover call that has just returned, if no
                \* other call has run since it began
    terminal,   \* history: the caller has been returned a session whose
                \* status is a terminal one
    created,    \* history: id, currency and number of line items of the
                \* session the faithful merchant's create_checkout returned
    store       \* the session the faithful merchant has stored

vars == <<cache, http, ninst, released, pc, call, client, merchant, req, resp,
          result, gets, sends, calls, env, succeeded, hist, prev, terminal,
          created, store>>

NoReq == [method |-> "none"]
NoProfile == [name |-> "none"]

Call(op, merchant_url, id, line_items, payment_data, kwargs) ==
    [op |-> op, merchant_url |-> merchant_url, id |-> id,
     line_items |-> line_items, payment_data |-> payment_data,
     kwargs |-> kwargs]

NoPrev == [none |-> TRUE]
NoHist ==
    [serial |-> 0, alone |-> FALSE, known |-> FALSE, after |-> NoPrev,
     terminal |-> FALSE]
NoSession == [none |-> TRUE]

NoCall == Call("none", <<>>, <<>>, <<>>, EmptyDict, EmptyDict)

Init ==
    /\ cache = [u \in {} |-> NoProfile]
    /\ http = 0
    /\ ninst = 0
    /\ released = {}
    /\ pc = [t \in Tasks |-> "idle"]
    /\ call = [t \in Tasks |-> NoCall]
    /\ client = [t \in Tasks |-> 0]
    /\ merchant = [t \in Tasks |-> NoProfile]
    /\ req = [t \in Tasks |-> NoReq]
    /\ resp = [t \in Tasks |-> NoOutcome]
    /\ result = [t \in Tasks |-> NoResult]
    /\ gets = [t \in Tasks |-> 0]
    /\ sends = [t \in Tasks |-> 0]
    /\ calls = 0
    /\ env \in Environments
    /\ succeeded = {}
    /\ hist = [t \in Tasks |-> NoHist]
    /\ prev = NoPrev
    /\ terminal = FALSE
    /\ created = NoSession
    /\ store = NoSession

\* ------------------------------------------------------------ the transport
\* _get_client as seen from a state where self._http_client is h and n
\* instances exist: the instance returned, and the new instance count.
_get_client(h, n) ==
    IF h = 0 THEN [http |-> n + 1, ninst |-> n + 1]
    ELSE [http |-> h, ninst |-> n]

Merge(base, over) ==
    [k \in DOMAIN base \cup DOMAIN over |->
        IF k \in DOMAIN over THEN over[k] ELSE base[k]]

Request(method, url, json) == [method |-> method, url |-> url, json |-> json]

\* A step of a task ends in a record: where the task is now, what it sent,
\* what it returned or raised, and what it did to self._http_client.
Step(p, r, res, h, n, g, s, m) ==
    [pc |-> p, req |-> r, result |-> res, http |-> h, ninst |-> n,
     gets |-> g, sends |-> s, merchant |-> m]

\* client.get / client.post / client.patch on instance inst: httpx refuses a
\* request on a closed client with a RuntimeError before anything is sent.
Send(inst, request, waitpc, h, n, isget, m) ==
    IF inst \in released
    THEN Step("done", NoReq, Raised(RuntimeError), h, n, 0, 0, m)
    ELSE Step(waitpc, Merge(request, [inst |-> inst]), NoResult, h, n,
              IF isget THEN 1 ELSE 0, IF isget THEN 0 ELSE 1, m)

has_checkout_any(m) == Len(m.capabilities) > 0

has_checkout(m) ==
    \E i \in 1..Len(m.capabilities) : m.capabilities[i].name = CK

\* mutant: every operation checks the checkout capability before it sends
ContinueGated(c, m, cl, h, n) ==
    LET base == rstrip(m.rest_endpoint) IN
    CASE c.op = "discover" ->
            Step("done", NoReq, Returned(m), h, n, 0, 0, m)
      [] c.op # "discover" /\ ~has_checkout(m) ->
            Step("done", NoReq, Raised(CapabilityError(CK)), h, n, 0, 0, m)
      [] c.op = "create_checkout" /\ has_checkout(m) ->
            LET g == _get_client(h, n) IN
            Send(g.http,
                 Request("POST", base \o <<"/checkout">>,
                         Merge([line_items |-> c.line_items], c.kwargs)),
                 "op_wait", g.http, g.ninst, FALSE, m)
      [] c.op = "update_checkout" /\ has_checkout(m) ->
            Send(cl,
                 Request("PATCH", base \o <<"/checkout/">> \o c.id,
                         Pop(c.kwargs, "merchant_url")),
                 "op_wait", h, n, FALSE, m)
      [] c.op = "complete_checkout" /\ has_checkout(m) ->
            Send(cl,
                 Request("POST",
                         base \o <<"/checkout/">> \o c.id \o <<"/complete">>,
                         Merge([payment |-> c.payment_data],
                               Pop(c.kwargs, "merchant_url"))),
                 "op_wait", h, n, FALSE, m)
      [] c.op = "get_order" /\ has_checkout(m) ->
            Send(cl, Request("GET", base \o <<"/orders/">> \o c.id, EmptyDict),
                 "op_wait", h, n, FALSE, m)

\* The rest of an operation once its discover has returned profile m; cl is
\* the operation's local client (taken before discover by update_checkout,
\* complete_checkout and get_order), h and n the transport state now.
Continue(c, m, cl, h, n) ==
    LET base == rstrip(m.rest_endpoint) IN
    CASE c.op = "discover" ->
            Step("done", NoReq, Returned(m), h, n, 0, 0, m)
      [] c.op = "create_checkout" ->
            IF ~has_checkout(m)
            THEN Step("done", NoReq, Raised(CapabilityError(CK)), h, n, 0, 0, m)
            ELSE LET g == _get_client(h, n) IN
                 Send(g.http,
                      Request("POST", base \o <<"/checkout">>,
                              Merge([line_items |-> c.line_items], c.kwargs)),
                      "op_wait", g.http, g.ninst, FALSE, m)
      [] c.op = "update_checkout" ->
            Send(cl,
                 Request("PATCH", base \o <<"/checkout/">> \o c.id,
                         Pop(c.kwargs, "merchant_url")),
                 "op_wait", h, n, FALSE, m)
      [] c.op = "complete_checkout" ->
            Send(cl,
                 Request("POST",
                         base \o <<"/checkout/">> \o c.id \o <<"/complete">>,
                         Merge([payment |-> c.payment_data],
                               Pop(c.kwargs, "merchant_url"))),
                 "op_wait", h, n, FALSE, m)
      [] c.op = "get_order" ->
            Send(cl, Request("GET", base \o <<"/orders/">> \o c.id, EmptyDict),
                 "op_wait", h, n, FALSE, m)

DiscoverUncached(c, cl, h, n) ==
    LET g == _get_client(h, n) IN
    Send(g.http,
         Request("GET", rstrip(c.merchant_url) \o <<"/.well-known/ucp">>,
                 EmptyDict),
         "disc_wait", g.http, g.ninst, TRUE, NoProfile)

\* mutant: the cache is looked up by the URL without its trailing slashes
DiscoverNormalised(c, cl, h, n) ==
    IF \E k \in DOMAIN cache : rstrip(k) = rstrip(c.merchant_url)
    THEN Continue(c,
                  cache[CHOOSE k \in DOMAIN cache :
                            rstrip(k) = rstrip(c.merchant_url)],
                  cl, h, n)
    ELSE LET g == _get_client(h, n) IN
         Send(g.http,
              Request("GET", rstrip(c.merchant_url) \o <<"/.well-known/ucp">>,
                      EmptyDict),
              "disc_wait", g.http, g.ninst, TRUE, NoProfile)

\* await self.discover(c.merchant_url), lines 167-177, up to its suspension.
Discover(c, cl, h, n) ==
    IF c.merchant_url \in DOMAIN cache
    THEN Continue(c, cache[c.merchant_url], cl, h, n)
    ELSE LET g == _get_client(h, n) IN
         Send(g.http,
              Request("GET", rstrip(c.merchant_url) \o <<"/.well-known/ucp">>,
                      EmptyDict),
              "disc_wait", g.http, g.ninst, TRUE, NoProfile)

\* The task t takes the step o of call c with local client cl.
Take(t, c, cl, o) ==
    /\ pc' = [pc EXCEPT ![t] = o.pc]
    /\ call' = [call EXCEPT ![t] = c]
    /\ client' = [client EXCEPT ![t] = cl]
    /\ merchant' = [merchant EXCEPT ![t] = o.merchant]
    /\ req' = [req EXCEPT ![t] = IF o.req = NoReq THEN req[t] ELSE o.req]
    /\ result' = [result EXCEPT ![t] = o.result]
    /\ gets' = [gets EXCEPT ![t] = @ + o.gets]
    /\ sends' = [sends EXCEPT ![t] = @ + o.sends]
    /\ http' = o.http
    /\ ninst' = o.ninst

\* ----------------------------------------------------- inputs: arguments
SessionIds == {<<"s1">>}
OrderIds == {<<"o1">>}
LineItemLists == {<<[sku |-> <<"a">>, quantity |-> 2]>>}
PaymentData == {[handler_id |-> <<"h1">>, credential |-> <<"tok">>]}

\* **kwargs of update_checkout and complete_checkout: with a merchant_url
\* (and a field or none besides), with an empty one, and without one.
Kwargs ==
    {[merchant_url |-> U1, note |-> <<"gift">>], [merchant_url |-> U1s],
     [merchant_url |-> <<>>, note |-> <<"gift">>], [note |-> <<"gift">>]}

KwargsFor(urls) ==
    {kw \in Kwargs :
        \/ "merchant_url" \notin DOMAIN kw
        \/ kw.merchant_url \in urls \cup {<<>>}}

None == [none |-> TRUE]

no_merchant_url_key(kwargs) == "merchant_url" \notin DOMAIN kwargs

\* kwargs.pop("merchant_url", None) followed by "if not merchant_url".
no_merchant_url(kwargs) ==
    \/ "merchant_url" \notin DOMAIN kwargs
    \/ kwargs.merchant_url = <<>>

InvalidRequest(what) ==
    UCPError(<<"invalid_request">>, <<"merchant_url required for ">> \o what,
             EmptyDict)

\* ----------------------------------------------------------------- actions
Running == \A t \in Tasks : pc[t] # "done"

\* A new call runs as the lowest task that is free: idle tasks are alike.
Begin(t, op, u) ==
    /\ Running
    /\ t \in env.tasks
    /\ pc[t] = "idle"
    /\ \A t2 \in env.tasks : t2 < t => pc[t2] # "idle"
    /\ calls < env.budget
    /\ calls' = calls + 1
    /\ resp' = [resp EXCEPT ![t] = NoOutcome]
    /\ hist' = [hist EXCEPT ![t] =
                   [serial |-> calls + 1,
                    alone |-> \A t2 \in Tasks : pc[t2] = "idle",
                    known |-> u \in succeeded,
                    terminal |-> terminal,
                    after |-> IF op = "discover" /\ prev # NoPrev
                                 /\ prev.url = u
                              THEN prev ELSE NoPrev]]
    /\ prev' = NoPrev

\* discover(merchant_url), lines 157-177.
CallDiscover(t, u) ==
    /\ Begin(t, "discover", u)
    /\ LET c == Call("discover", u, <<>>, <<>>, EmptyDict, EmptyDict)
       IN Take(t, c, 0, Discover(c, 0, http, ninst))
    /\ UNCHANGED <<cache, released, env, succeeded, terminal, created,
                   store>>

\* create_checkout(merchant_url, line_items, **kwargs), lines 260-261.
CallCreateCheckout(t, u, items, kwargs) ==
    /\ Begin(t, "create_checkout", u)
    /\ LET c == Call("create_checkout", u, <<>>, items, EmptyDict, kwargs)
       IN Take(t, c, 0, Discover(c, 0, http, ninst))
    /\ UNCHANGED <<cache, released, env, succeeded, terminal, created,
                   store>>

\* mutant: without a merchant_url the operation turns to the merchant
\* https://m1
CallWithKwargsDefaultUrl(t, op, what, id, payment, kwargs) ==
    /\ Begin(t, op, IF no_merchant_url(kwargs) THEN U1
                     ELSE kwargs.merchant_url)
    /\ LET g == _get_client(http, ninst)
           u == IF no_merchant_url(kwargs) THEN U1 ELSE kwargs.merchant_url
           c == Call(op, u, id, <<>>, payment, kwargs)
       IN Take(t, c, g.http, Discover(c, g.http, g.http, g.ninst))
    /\ UNCHANGED <<cache, released, env, succeeded, terminal, created,
                   store>>

\* update_checkout and complete_checkout up to their first suspension,
\* lines 304-312 and 344-351: the client is taken first, then merchant_url
\* is validated, then the merchant is discovered.
CallWithKwargs(t, op, what, id, payment, kwargs) ==
    /\ Begin(t, op, IF no_merchant_url(kwargs) THEN <<>>
                     ELSE kwargs.merchant_url)
    /\ LET g == _get_client(http, ninst)
           u == IF no_merchant_url(kwargs) THEN <<>> ELSE kwargs.merchant_url
           c == Call(op, u, id, <<>>, payment, kwargs)
       IN IF no_merchant_url(kwargs)
          THEN Take(t, c, g.http,
                    Step("done", NoReq, Raised(InvalidRequest(what)),
                         g.http, g.ninst, 0, 0, NoProfile))
          ELSE Take(t, c, g.http, Discover(c, g.http, g.http, g.ninst))
    /\ UNCHANGED <<cache, released, env, succeeded, terminal, created,
                   store>>

CallUpdateCheckout(t, id, kwargs) ==
    CallWithKwargs(t, "update_checkout", <<"update">>, id, EmptyDict, kwargs)

CallCompleteCheckout(t, id, payment, kwargs) ==
    CallWithKwargs(t, "complete_checkout", <<"completion">>, id, payment,
                   kwargs)

\* The bodies of POST /checkout/complete, main.py lines 75-78.
CompleteCheckoutRequests ==
    {[session_id |-> <<"s1">>, payment_handler_id |-> <<"h1">>,
      payment_credential |-> <<"tok">>]}

\* The /checkout/complete handler, main.py lines 127-136: it calls
\* complete_checkout with the session id and the payment data, and with no
\* keyword argument; an error of the call passes through it.
main_complete_checkout(t, request) ==
    CallCompleteCheckout(t, request.session_id,
                         [handler_id |-> request.payment_handler_id,
                          credential |-> request.payment_credential],
                         EmptyDict)

\* get_order(order_id, merchant_url), lines 388-394.
CallGetOrder(t, id, u) ==
    /\ Begin(t, "get_order", u)
    /\ LET g == _get_client(http, ninst)
           c == Call("get_order", u, id, <<>>, EmptyDict, EmptyDict)
       IN Take(t, c, g.http, Discover(c, g.http, g.http, g.ninst))
    /\ UNCHANGED <<cache, released, env, succeeded, terminal, created,
                   store>>

\* ------------------------------------------------------------ negotiate
\* Agent capabilities and handlers, lines 231-232.
agent_capabilities == {CK}
agent_handlers == {<<"com.google.pay">>, <<"dev.ucp.ap2">>}

\* {c.name for c in merchant_profile.capabilities}, line 235.
merchant_caps(merchant_profile) ==
    {merchant_profile.capabilities[i].name :
        i \in DOMAIN merchant_profile.capabilities}

\* {h.type for h in merchant_profile.payment_handlers}, line 236.
merchant_handlers(merchant_profile) ==
    {merchant_profile.payment_handlers[i].type :
        i \in DOMAIN merchant_profile.payment_handlers}

\* list(a_set): each element once, in an order the language does not fix.
list(S) ==
    {l \in [1..Cardinality(S) -> S] : {l[i] : i \in DOMAIN l} = S}

\* mutant: everything the merchant declares is returned
negotiate_merchant_only(merchant_profile) ==
    {[capabilities |-> c, payment_handlers |-> h] :
        c \in list(merchant_caps(merchant_profile)),
        h \in list(merchant_handlers(merchant_profile))}

\* negotiate(merchant_profile), lines 238-241: the dicts it may return.
negotiate(merchant_profile) ==
    {[capabilities |-> c, payment_handlers |-> h] :
        c \in list(agent_capabilities \cap merchant_caps(merchant_profile)),
        h \in list(agent_handlers
                      \cap merchant_handlers(merchant_profile))}

\* A profile whose handlers overlap the agent's in part, one of them twice.
WellKnown4 ==
    [ucp |-> [version |-> UCP_VERSION,
              capabilities |-> <<[name |-> <<"dev.ucp.x">>,
                                  version |-> UCP_VERSION],
                                 [name |-> CK, version |-> UCP_VERSION]>>,
              payment_handlers |-> <<[id |-> <<"h1">>, type |-> <<"card">>],
                                     [id |-> <<"h2">>,
                                      type |-> <<"com.google.pay">>],
                                     [id |-> <<"h3">>,
                                      type |-> <<"com.google.pay">>]>>],
     merchant |-> [name |-> <<"Shop">>]]

\* The profiles a caller passes to negotiate: what discover returns.
MerchantProfiles ==
    {MerchantProfile(b, U1) : b \in WellKnownBodies \cup {WellKnown4}}

\* negotiate(merchant_profile), lines 218-241: it never suspends.
CallNegotiate(t, merchant_profile) ==
    /\ Begin(t, "negotiate", <<>>)
    /\ \E v \in negotiate(merchant_profile) :
          Take(t, Call("negotiate", <<>>, <<>>, <<>>, EmptyDict, EmptyDict),
               0,
               Step("done", NoReq, Returned(v), http, ninst, 0, 0,
                    merchant_profile))
    /\ UNCHANGED <<cache, released, env, succeeded, terminal, created,
                   store>>

\* close(), lines 153-154: aclose() marks the instance closed and suspends.
CallClose(t) ==
    /\ Begin(t, "close", <<>>)
    /\ LET c == Call("close", <<>>, <<>>, <<>>, EmptyDict, EmptyDict)
       IN IF http # 0
          THEN /\ released' = released \cup {http}
               /\ Take(t, c, http,
                       Step("close_wait", NoReq, NoResult, http, ninst, 0, 0,
                            NoProfile))
          ELSE /\ released' = released
               /\ Take(t, c, 0,
                       Step("done", NoReq, Returned(None), http, ninst, 0, 0,
                            NoProfile))
    /\ UNCHANGED <<cache, env, succeeded, terminal, created, store>>

\* mutant: close() empties the merchant cache as well
CloseResumeClear(t) ==
    /\ Running
    /\ pc[t] = "close_wait"
    /\ Take(t, call[t], client[t],
            Step("done", NoReq, Returned(None), 0, ninst, 0, 0, NoProfile))
    /\ cache' = [u \in {} |-> NoProfile]
    /\ UNCHANGED <<released, resp, calls, env, succeeded, hist, prev,
                   terminal, created, store>>

\* close(), line 155, after aclose() has returned.
CloseResume(t) ==
    /\ Running
    /\ pc[t] = "close_wait"
    /\ Take(t, call[t], client[t],
            Step("done", NoReq, Returned(None), 0, ninst, 0, 0, NoProfile))
    /\ UNCHANGED <<cache, released, resp, calls, env, succeeded, hist, prev,
                   terminal, created, store>>

CachePutNothing(u, profile) == cache

\* mutant: the cache holds the profile stored last, and no other
CachePutEvict(u, profile) == [x \in {u} |-> profile]

\* mutant: a second write for a URL keeps the payment handlers stored first
CachePutMix(u, profile) ==
    [x \in DOMAIN cache \cup {u} |->
        IF x # u THEN cache[x]
        ELSE IF u \in DOMAIN cache
        THEN [profile EXCEPT !.payment_handlers = cache[u].payment_handlers]
        ELSE profile]

\* self._merchant_cache[merchant_url] = profile, line 214.
CachePut(u, profile) ==
    [x \in DOMAIN cache \cup {u} |-> IF x = u THEN profile ELSE cache[x]]

\* mutant: a failed discovery is remembered as a profile without
\* capabilities
DiscoverResumeNegative(t, outcome) ==
    /\ Running
    /\ pc[t] = "disc_wait"
    /\ resp' = [resp EXCEPT ![t] = outcome]
    /\ IF Failed(outcome)
       THEN /\ Take(t, call[t], client[t],
                    Step("done", NoReq, Raised(DiscoverFailure(outcome)),
                         http, ninst, 0, 0, NoProfile))
            /\ cache' = CachePut(call[t].merchant_url,
                                 MerchantProfile(EmptyDict,
                                                 call[t].merchant_url))
            /\ UNCHANGED succeeded
       ELSE LET profile == MerchantProfile(outcome.response.data,
                                           call[t].merchant_url)
            IN /\ cache' = CachePut(call[t].merchant_url, profile)
               /\ succeeded' = succeeded \cup {call[t].merchant_url}
               /\ Take(t, call[t], client[t],
                       Continue(call[t], profile, client[t], http, ninst))
    /\ UNCHANGED <<released, calls, env, hist, prev, terminal, created,
                   store>>

\* mutant: an operation goes on without a profile when its discovery failed
DiscoverResumeLenient(t, outcome) ==
    /\ Running
    /\ pc[t] = "disc_wait"
    /\ resp' = [resp EXCEPT ![t] = outcome]
    /\ IF Failed(outcome)
       THEN /\ Take(t, call[t], client[t],
                    IF call[t].op = "discover"
                    THEN Step("done", NoReq,
                              Raised(DiscoverFailure(outcome)),
                              http, ninst, 0, 0, NoProfile)
                    ELSE Continue(call[t],
                                  MerchantProfile([ucp |-> [capabilities |->
                                                      <<[name |-> CK]>>]],
                                                  call[t].merchant_url),
                                  client[t], http, ninst))
            /\ UNCHANGED <<cache, succeeded>>
       ELSE LET profile == MerchantProfile(outcome.response.data,
                                           call[t].merchant_url)
            IN /\ cache' = CachePut(call[t].merchant_url, profile)
               /\ succeeded' = succeeded \cup {call[t].merchant_url}
               /\ Take(t, call[t], client[t],
                       Continue(call[t], profile, client[t], http, ninst))
    /\ UNCHANGED <<released, calls, env, hist, prev, terminal, created,
                   store>>

\* discover, lines 177-216, and the rest of the operation that awaited it:
\* the well-known GET of task t ends with outcome.
DiscoverResume(t, outcome) ==
    /\ Running
    /\ pc[t] = "disc_wait"
    /\ resp' = [resp EXCEPT ![t] = outcome]
    /\ IF Failed(outcome)
       THEN /\ Take(t, call[t], client[t],
                    Step("done", NoReq, Raised(DiscoverFailure(outcome)),
                         http, ninst, 0, 0, NoProfile))
            /\ UNCHANGED <<cache, succeeded>>
       ELSE LET profile == MerchantProfile(outcome.response.data,
                                           call[t].merchant_url)
            IN /\ cache' = CachePut(call[t].merchant_url, profile)
               /\ succeeded' = succeeded \cup {call[t].merchant_url}
               /\ Take(t, call[t], client[t],
                       Continue(call[t], profile, client[t], http, ninst))
    /\ UNCHANGED <<released, calls, env, hist, prev, terminal, created,
                   store>>

\* ------------------------------------------------- the faithful merchant
\* The sessions it may store for a POST /checkout: the line items are the
\* ones sent; the currency field is set or left to the reader's default.
NewSessions(json) ==
    {[id |-> <<"s1">>, status |-> <<"incomplete">>, currency |-> <<"EUR">>,
      line_items |-> json.line_items],
     [id |-> <<"s1">>, line_items |-> json.line_items]}

\* The 2xx bodies the faithful merchant may answer to the request of task t.
Served(t) ==
    CASE pc[t] # "op_wait" -> {}
      [] call[t].op = "create_checkout" -> NewSessions(req[t].json)
      [] call[t].op = "update_checkout" ->
            IF store = NoSession THEN {} ELSE {Merge(store, req[t].json)}
      [] call[t].op = "complete_checkout" ->
            IF store = NoSession THEN {} ELSE OrderBodies
      [] OTHER -> OrderBodies

\* What the merchant has stored once it has answered task t with outcome.
Stored(t, outcome) ==
    IF env.faithful /\ ~Failed(outcome)
       /\ call[t].op \in {"create_checkout", "update_checkout"}
    THEN outcome.response.data
    ELSE store

\* completed, failed and expired are the terminal statuses of a session.
TerminalStatuses == {<<"completed">>, <<"failed">>, <<"expired">>}

ReturnedTerminal(t) ==
    /\ call[t].op \in {"create_checkout", "update_checkout"}
    /\ result[t].kind = "returned"
    /\ result[t].value.status \in TerminalStatuses

TwoItems ==
    <<[sku |-> <<"a">>, quantity |-> 2], [sku |-> <<"b">>, quantity |-> 1]>>

OpBodies(op) ==
    IF op \in {"create_checkout", "update_checkout"} THEN SessionBodies
    ELSE OrderBodies

\* The 2xx bodies of the merchant that is not the faithful one; while
\* several calls overlap it answers with no terminal session.
Bodies(op) ==
    IF env.wide THEN OpBodies(op) ELSE OpBodies(op) \ {CompletedSession}

\* mutant: once a terminal status has been returned, the client keeps
\* reporting the session as completed
ParseSticky(c, m, data) ==
    IF c.op \in {"create_checkout", "update_checkout"}
    THEN [_parse_checkout_session(data, c.merchant_url, m.payment_handlers)
             EXCEPT !.status = IF terminal THEN <<"completed">> ELSE @]
    ELSE IF c.op = "get_order" THEN Order_get_order(data)
    ELSE Order(data)

\* mutant: update_checkout returns the session as patched locally, without
\* the line items and the currency of the response
ParsePatchOnly(c, m, data) ==
    IF c.op = "create_checkout"
    THEN _parse_checkout_session(data, c.merchant_url, m.payment_handlers)
    ELSE IF c.op = "update_checkout"
    THEN _parse_checkout_session(
             Merge([id |-> c.id], Pop(c.kwargs, "merchant_url")),
             c.merchant_url, m.payment_handlers)
    ELSE IF c.op = "get_order" THEN Order_get_order(data)
    ELSE Order(data)

\* What the operation returns for a 2xx body, lines 285-287, 323-325,
\* 367-375 and 401-409.
Parse(c, m, data) ==
    IF c.op \in {"create_checkout", "update_checkout"}
    THEN _parse_checkout_session(data, c.merchant_url, m.payment_handlers)
    ELSE IF c.op = "get_order" THEN Order_get_order(data)
    ELSE Order(data)

\* mutant: a failed request is sent once more
OpResumeRetry(t, outcome) ==
    /\ Running
    /\ pc[t] = "op_wait"
    /\ resp' = [resp EXCEPT ![t] = outcome]
    /\ Take(t, call[t], client[t],
            IF Failed(outcome) /\ sends[t] < 2
            THEN Step("op_wait", NoReq, NoResult, http, ninst, 0, 1,
                      merchant[t])
            ELSE Step("done", NoReq,
                      IF Failed(outcome) THEN Raised(WireFailure(outcome))
                      ELSE Returned(Parse(call[t], merchant[t],
                                          outcome.response.data)),
                      http, ninst, 0, 0, merchant[t]))
    /\ store' = Stored(t, outcome)
    /\ UNCHANGED <<cache, released, calls, env, succeeded, hist, prev,
                   terminal, created>>

\* The request of task t to the operation's endpoint ends with outcome.
OpResume(t, outcome) ==
    /\ Running
    /\ pc[t] = "op_wait"
    /\ resp' = [resp EXCEPT ![t] = outcome]
    /\ Take(t, call[t], client[t],
            Step("done", NoReq,
                 IF Failed(outcome) THEN Raised(WireFailure(outcome))
                 ELSE Returned(Parse(call[t], merchant[t],
                                     outcome.response.data)),
                 http, ninst, 0, 0, merchant[t]))
    /\ store' = Stored(t, outcome)
    /\ UNCHANGED <<cache, released, calls, env, succeeded, hist, prev,
                   terminal, created>>

\* No other call has run since the call of task t began.
Quiet(t) ==
    /\ hist[t].alone
    /\ hist[t].serial = calls
    /\ \A t2 \in Tasks \ {t} : pc[t2] = "idle"

\* The caller has taken the result; the task is free for the next call.
Return(t) ==
    /\ pc[t] = "done"
    /\ pc' = [pc EXCEPT ![t] = "idle"]
    /\ call' = [call EXCEPT ![t] = NoCall]
    /\ client' = [client EXCEPT ![t] = 0]
    /\ merchant' = [merchant EXCEPT ![t] = NoProfile]
    /\ req' = [req EXCEPT ![t] = NoReq]
    /\ resp' = [resp EXCEPT ![t] = NoOutcome]
    /\ result' = [result EXCEPT ![t] = NoResult]
    /\ gets' = [gets EXCEPT ![t] = 0]
    /\ sends' = [sends EXCEPT ![t] = 0]
    /\ hist' = [hist EXCEPT ![t] = NoHist]
    /\ prev' = IF call[t].op = "discover" /\ Quiet(t)
               THEN [url |-> call[t].merchant_url,
                     failed |-> result[t].kind = "raised",
                     gets |-> gets[t]]
               ELSE NoPrev
    /\ terminal' = (terminal \/ ReturnedTerminal(t))
    /\ created' = IF env.faithful /\ call[t].op = "create_checkout"
                     /\ result[t].kind = "returned"
                  THEN [id |-> result[t].value.id,
                        currency |-> result[t].value.currency,
                        line_items |-> Len(result[t].value.line_items)]
                  ELSE created
    /\ UNCHANGED <<cache, http, ninst, released, calls, env, succeeded,
                   store>>

Failures == IF env.wide THEN FailureOutcomes ELSE CoreFailures

Next ==
    \E t \in Tasks :
        \/ \E u \in env.urls : CallDiscover(t, u)
        \/ \E u \in env.urls,
                 items \in IF env.faithful THEN LineItemLists \cup {TwoItems}
                           ELSE LineItemLists :
              CallCreateCheckout(t, u, items, EmptyDict)
        \/ \E id \in SessionIds, kw \in KwargsFor(env.urls) :
              CallUpdateCheckout(t, id, kw)
        \/ \E id \in SessionIds, p \in PaymentData,
                 kw \in KwargsFor(env.urls) :
              CallCompleteCheckout(t, id, p, kw)
        \/ \E r \in CompleteCheckoutRequests : main_complete_checkout(t, r)
        \/ \E id \in OrderIds, u \in env.urls : CallGetOrder(t, id, u)
        \/ \E p \in MerchantProfiles : CallNegotiate(t, p)
        \/ CallClose(t)
        \/ CloseResume(t)
        \/ \E o \in {Response(OkResponse(b)) : b \in WellKnownBodies}
                    \cup Failures : DiscoverResume(t, o)
        \/ \E o \in {Response(OkResponse(b)) :
                        b \in IF env.faithful THEN Served(t)
                              ELSE Bodies(call[t].op)}
                    \cup Failures : OpResume(t, o)
        \/ Return(t)

Spec == Init /\ [][Next]_vars

TypeOK ==
    /\ http \in 0..ninst
    /\ released \subseteq 1..ninst
    /\ \A t \in Tasks : pc[t] \in {"idle", "disc_wait", "op_wait",
                                    "close_wait", "done"}

\* ================================================================== claims
WireOps ==
    {"create_checkout", "update_checkout", "complete_checkout", "get_order"}

IsDone(t) == pc[t] = "done"

\* the last wire call of task t was the request to the operation's own
\* endpoint (not the well-known GET of the discover inside it)
OwnRequest(t) == call[t].op \in WireOps /\ sends[t] = 1

\* the last wire call of task t ended with a non-2xx response
GotErrorResponse(t) ==
    /\ resp[t].kind = "response"
    /\ resp[t].response.status_code \notin 200..299

EndsWith(s, suffix) ==
    /\ Len(s) >= Len(suffix)
    /\ SubSeq(s, Len(s) - Len(suffix) + 1, Len(s)) = suffix

\* C1: once a discover(u) has succeeded on the client, every later call that
\* discovers u (discover itself, or the discover inside an operation) sends
\* no well-known request, and discover(u) returns the cached profile at
\* once, whatever calls (close included) ran in between.
C1_CachedDiscoverSendsNothing ==
    \A t \in Tasks :
        hist[t].known =>
            /\ gets[t] = 0
            /\ pc[t] # "disc_wait"
            /\ call[t].op = "discover" =>
                  /\ IsDone(t)
                  /\ call[t].merchant_url \in DOMAIN cache
                  /\ result[t] = Returned(cache[call[t].merchant_url])

C1_Witness ==
    \E t \in Tasks :
        /\ IsDone(t)
        /\ call[t].op = "discover"
        /\ hist[t].known
        /\ released # {}
        /\ http = 0
        /\ result[t].kind = "returned"

\* C2 as stated: two discover(u) calls in a row with no other call in
\* between send at most one well-known GET in total, whatever the outcome of
\* the first.
C2_AtMostOneGetWhateverTheOutcome ==
    \A t \in Tasks :
        (IsDone(t) /\ call[t].op = "discover" /\ hist[t].after # NoPrev
         /\ Quiet(t))
            => hist[t].after.gets + gets[t] <= 1

\* C2 as amended: two discover(u) calls in a row with no other call in
\* between send at most one well-known GET in total when the first call
\* succeeded.
C2_AtMostOneGetAfterSuccess ==
    \A t \in Tasks :
        (IsDone(t) /\ call[t].op = "discover" /\ hist[t].after # NoPrev
         /\ Quiet(t) /\ ~hist[t].after.failed)
            => hist[t].after.gets + gets[t] <= 1

C2_Witness ==
    \E t \in Tasks :
        /\ IsDone(t) /\ call[t].op = "discover" /\ hist[t].after # NoPrev
        /\ Quiet(t)
        /\ ~hist[t].after.failed
        /\ hist[t].after.gets = 1
        /\ gets[t] = 0
        /\ result[t].kind = "returned"

\* C3: single-flight discovery: at any time at most one well-known request
\* is in flight for a merchant URL.
C3_SingleFlight ==
    \A u \in URLs :
        Cardinality({t \in Tasks :
                        pc[t] = "disc_wait" /\ call[t].merchant_url = u}) <= 1

\* C4: create_checkout against a profile without the capability
\* dev.ucp.shopping.checkout raises CapabilityError for that capability and
\* has sent nothing but the discovery GET (nothing when the profile was
\* cached): no request to the checkout endpoint.
C4_CapabilityGate ==
    \A t \in Tasks :
        (/\ call[t].op = "create_checkout"
         /\ merchant[t] # NoProfile
         /\ \A i \in DOMAIN merchant[t].capabilities :
                merchant[t].capabilities[i].name
                    # <<"dev.ucp.shopping.checkout">>)
            => /\ IsDone(t)
               /\ result[t] = Raised(CapabilityError(
                                  <<"dev.ucp.shopping.checkout">>))
               /\ sends[t] = 0
               /\ gets[t] <= 1
               /\ (hist[t].known => gets[t] = 0)
               /\ (req[t] # NoReq =>
                      /\ req[t].method = "GET"
                      /\ EndsWith(req[t].url, <<"/.well-known/ucp">>))

C4_Witness ==
    \E t \in Tasks :
        /\ IsDone(t)
        /\ call[t].op = "create_checkout"
        /\ gets[t] = 1
        /\ merchant[t] # NoProfile
        /\ result[t].kind = "raised"
        /\ result[t].error.type = "CapabilityError"
        /\ result[t].error.capability = <<"dev.ucp.shopping.checkout">>

\* C5: update_checkout and complete_checkout called without a merchant_url
\* (absent or empty) raise the error code invalid_request in the step that
\* starts them: no request is sent and the merchant cache is unchanged.
C5_MissingMerchantUrl ==
    [][\A t \in Tasks :
          (/\ pc[t] = "idle" /\ pc'[t] # "idle"
           /\ call'[t].op \in {"update_checkout", "complete_checkout"}
           /\ \/ "merchant_url" \notin DOMAIN call'[t].kwargs
              \/ call'[t].kwargs.merchant_url = <<>>)
             => /\ pc'[t] = "done"
                /\ result'[t].kind = "raised"
                /\ result'[t].error.type = "UCPError"
                /\ result'[t].error.code = <<"invalid_request">>
                /\ gets'[t] = 0 /\ sends'[t] = 0 /\ req'[t] = NoReq
                /\ cache' = cache]_vars

C5_Witness ==
    \E t \in Tasks :
        /\ IsDone(t)
        /\ call[t].op = "complete_checkout"
        /\ "merchant_url" \in DOMAIN call[t].kwargs
        /\ call[t].kwargs.merchant_url = <<>>
        /\ DOMAIN cache # {}
        /\ result[t].kind = "raised"
        /\ result[t].error.code = <<"invalid_request">>

\* the structured error of the response task t received, if its body is an
\* object with an error object that has a code and a details object
StructuredError(t) ==
    /\ GotErrorResponse(t)
    /\ resp[t].response.shape = "obj"
    /\ "error" \in DOMAIN resp[t].response.data
    /\ {"code", "details"} \subseteq DOMAIN resp[t].response.data.error

\* C6: create_checkout, update_checkout, complete_checkout and get_order map
\* a non-2xx response to their request that has a structured error body by
\* the body alone:
\* version_mismatch gives VersionError with details.required_version,
\* capability_not_supported gives CapabilityError with details.capability,
\* any other code a UCPError with that code, message and details; the status
\* code plays no part.
C6_ErrorMappingByBody ==
    \A t \in Tasks :
        (IsDone(t) /\ OwnRequest(t) /\ StructuredError(t)) =>
            LET e == resp[t].response.data.error
                x == result[t].error
            IN /\ result[t].kind = "raised"
               /\ e.code = <<"version_mismatch">> =>
                     /\ x.type = "VersionError"
                     /\ "required_version" \in DOMAIN e.details =>
                           x.required_version = e.details.required_version
               /\ e.code = <<"capability_not_supported">> =>
                     /\ x.type = "CapabilityError"
                     /\ "capability" \in DOMAIN e.details =>
                           x.capability = e.details.capability
               /\ e.code \notin {<<"version_mismatch">>,
                                 <<"capability_not_supported">>} =>
                     /\ x.type = "UCPError"
                     /\ x.code = e.code
                     /\ "message" \in DOMAIN e => x.message = e.message
                     /\ x.details = e.details

C6_Witness ==
    \E t \in Tasks :
        /\ IsDone(t) /\ call[t].op = "update_checkout" /\ StructuredError(t)
        /\ resp[t].response.status_code = 500
        /\ resp[t].response.data.error.code = <<"version_mismatch">>
        /\ result[t].kind = "raised"
        /\ result[t].error.type = "VersionError"
        /\ result[t].error.required_version = <<"2027-01-01">>

\* C7: every operation maps a non-2xx response the same way: a body with the
\* code version_mismatch gives a VersionError whichever operation received
\* it, discover included.
C7_UniformErrorMapping ==
    \A t \in Tasks :
        (/\ IsDone(t) /\ StructuredError(t)
         /\ resp[t].response.data.error.code = <<"version_mismatch">>)
            => /\ result[t].kind = "raised"
               /\ result[t].error.type = "VersionError"

\* the body of the response task t received is no error payload
Unparsable(t) ==
    /\ GotErrorResponse(t)
    /\ resp[t].response.shape \in {"text", "nonobj", "baderror"}

HttpCode(status) ==
    CASE status = 409 -> <<"http_", "4", "0", "9">>
      [] status = 500 -> <<"http_", "5", "0", "0">>

\* C8 as stated: a non-2xx response whose body is no error payload gives the
\* code http_<status> and the raw body text as message, the empty string
\* for an empty body.
C8_RawTextMessage ==
    \A t \in Tasks :
        (IsDone(t) /\ OwnRequest(t) /\ Unparsable(t)) =>
            /\ result[t].kind = "raised"
            /\ result[t].error.code = HttpCode(resp[t].response.status_code)
            /\ result[t].error.message = resp[t].response.text

\* C8 as amended: a non-2xx response to the request of create_checkout,
\* update_checkout, complete_checkout or get_order whose body is no error
\* payload gives the code http_<status> and as message the raw body text,
\* or "Unknown error" when the body is empty.
C8_RawTextOrUnknownError ==
    \A t \in Tasks :
        (IsDone(t) /\ OwnRequest(t) /\ Unparsable(t)) =>
            /\ result[t].kind = "raised"
            /\ result[t].error.type = "UCPError"
            /\ result[t].error.code = HttpCode(resp[t].response.status_code)
            /\ result[t].error.message =
                  IF resp[t].response.text = <<>> THEN <<"Unknown error">>
                  ELSE resp[t].response.text

C8_Witness ==
    \E t \in Tasks :
        /\ IsDone(t) /\ call[t].op = "get_order" /\ Unparsable(t)
        /\ resp[t].response.text = <<>>
        /\ result[t].kind = "raised"
        /\ result[t].error.code = <<"http_", "5", "0", "0">>
        /\ result[t].error.message = <<"Unknown error">>

\* C9: a connection failure of the wire call of any operation is raised as
\* a UCPError with code network_error whose message ends with the cause.
C9_NetworkError ==
    \A t \in Tasks :
        (IsDone(t) /\ resp[t].kind = "request_error") =>
            /\ result[t].kind = "raised"
            /\ result[t].error.type = "UCPError"
            /\ result[t].error.code = <<"network_error">>
            /\ EndsWith(result[t].error.message, resp[t].cause)

C9_Witness ==
    \E t \in Tasks :
        /\ IsDone(t)
        /\ call[t].op = "complete_checkout"
        /\ sends[t] = 1
        /\ resp[t].kind = "request_error"
        /\ resp[t].cause = <<"connection refused">>
        /\ result[t].kind = "raised"
        /\ result[t].error.code = <<"network_error">>

\* C10: within one call a task sends at most one well-known GET and at most
\* one request to the operation's endpoint, and after a wire call that ended
\* in a non-2xx response or a connection failure it is never waiting for a
\* request again.
C10_NoRetry ==
    \A t \in Tasks :
        /\ gets[t] <= 1
        /\ sends[t] <= 1
        /\ (resp[t] # NoOutcome /\ pc[t] \in {"disc_wait", "op_wait"}) =>
              /\ resp[t].kind = "response"
              /\ resp[t].response.status_code \in 200..299

C10_Witness ==
    \E t \in Tasks :
        /\ IsDone(t)
        /\ call[t].op = "create_checkout"
        /\ gets[t] = 1 /\ sends[t] = 1
        /\ GotErrorResponse(t)
        /\ result[t].kind = "raised"

\* the last wire call of task t ended with a non-2xx response or with a
\* connection-level failure
WireCallFailed(t) ==
    \/ GotErrorResponse(t)
    \/ resp[t].kind = "request_error"

UCPErrorTypes == {"UCPError", "VersionError", "CapabilityError"}

\* C11 as stated: a call of discover, create_checkout, update_checkout,
\* complete_checkout or get_order whose wire call ended with a non-2xx
\* response or a connection failure ends by raising a UCPError (or one of its
\* subclasses) and returns nothing.
C11_FailuresRaiseUCPError ==
    \A t \in Tasks :
        (IsDone(t) /\ WireCallFailed(t)) =>
            /\ result[t].kind = "raised"
            /\ result[t].error.type \in UCPErrorTypes

\* the elements of a list
Elements(l) == {l[i] : i \in DOMAIN l}

\* C12: negotiate(profile) returns as capabilities exactly the names that
\* are both among the agent's capabilities and among the names of the
\* profile's capabilities, and as payment_handlers exactly the types that
\* are both among the agent's handlers and among the types of the profile's
\* handlers, each once.
C12_NegotiateIntersection ==
    \A t \in Tasks :
        (IsDone(t) /\ call[t].op = "negotiate") =>
            /\ result[t].kind = "returned"
            /\ Elements(result[t].value.capabilities) =
                  {n \in {<<"dev.ucp.shopping.checkout">>} :
                      \E i \in DOMAIN merchant[t].capabilities :
                          merchant[t].capabilities[i].name = n}
            /\ Elements(result[t].value.payment_handlers) =
                  {h \in {<<"com.google.pay">>, <<"dev.ucp.ap2">>} :
                      \E i \in DOMAIN merchant[t].payment_handlers :
                          merchant[t].payment_handlers[i].type = h}
            /\ \A i, j \in DOMAIN result[t].value.capabilities :
                  result[t].value.capabilities[i] =
                      result[t].value.capabilities[j] => i = j
            /\ \A i, j \in DOMAIN result[t].value.payment_handlers :
                  result[t].value.payment_handlers[i] =
                      result[t].value.payment_handlers[j] => i = j

\* the merchant declares {card, com.google.pay}, the agent
\* {com.google.pay, dev.ucp.ap2}: the result is {com.google.pay}
C12_Witness ==
    \E t \in Tasks :
        /\ IsDone(t)
        /\ call[t].op = "negotiate"
        /\ \E i \in DOMAIN merchant[t].payment_handlers :
              merchant[t].payment_handlers[i].type = <<"card">>
        /\ \E i \in DOMAIN merchant[t].capabilities :
              merchant[t].capabilities[i].name = <<"dev.ucp.x">>
        /\ result[t].value.payment_handlers = <<(<<"com.google.pay">>)>>
        /\ result[t].value.capabilities = <<(<<"dev.ucp.shopping.checkout">>)>>

\* the call of task t has returned what it parsed from a 2xx response to the
\* request it sent to the operation's own endpoint
GotBody(t) ==
    /\ IsDone(t)
    /\ OwnRequest(t)
    /\ resp[t].kind = "response"
    /\ resp[t].response.status_code \in 200..299

Field(d, k, default) == IF k \in DOMAIN d THEN d[k] ELSE default

\* C13: the order that complete_checkout or get_order returns has the
\* status, total_cents and currency of the response body where the body has
\* them, and status "unknown", total_cents 0 and currency "USD" where it has
\* not, by the same rule for both operations.
C13_OrderDefaults ==
    \A t \in Tasks :
        (GotBody(t) /\ call[t].op \in {"complete_checkout", "get_order"}) =>
            /\ result[t].kind = "returned"
            /\ result[t].value.status =
                  Field(resp[t].response.data, "status", <<"unknown">>)
            /\ result[t].value.total_cents =
                  Field(resp[t].response.data, "total_cents", 0)
            /\ result[t].value.currency =
                  Field(resp[t].response.data, "currency", <<"USD">>)

C13_Witness ==
    \E t \in Tasks :
        /\ GotBody(t)
        /\ call[t].op = "get_order"
        /\ DOMAIN resp[t].response.data = {"confirmation_number"}
        /\ result[t].value.status = <<"unknown">>
        /\ result[t].value.total_cents = 0
        /\ result[t].value.currency = <<"USD">>

SessionOps == {"create_checkout", "update_checkout"}

\* C14: the session that create_checkout or update_checkout returns for the
\* merchant URL u has merchant_url u and the payment handlers of the profile
\* that the call discovered for u, whatever the response body holds.
C14_SessionBoundToMerchant ==
    \A t \in Tasks :
        (GotBody(t) /\ call[t].op \in SessionOps) =>
            /\ result[t].kind = "returned"
            /\ result[t].value.merchant_url = call[t].merchant_url
            /\ merchant[t] # NoProfile
            /\ result[t].value.payment_handlers = merchant[t].payment_handlers
            /\ hist[t].alone /\ Quiet(t) =>
                  /\ call[t].merchant_url \in DOMAIN cache
                  /\ merchant[t] = cache[call[t].merchant_url]

\* the body names another merchant_url and other payment handlers
C14_Witness ==
    \E t \in Tasks :
        /\ GotBody(t)
        /\ call[t].op = "update_checkout"
        /\ "merchant_url" \in DOMAIN resp[t].response.data
        /\ resp[t].response.data.merchant_url # call[t].merchant_url
        /\ "payment_handlers" \in DOMAIN resp[t].response.data
        /\ resp[t].response.data.payment_handlers
              # merchant[t].payment_handlers
        /\ result[t].value.merchant_url = <<"https://m1", "/">>

\* C15: the session that create_checkout or update_checkout returns has the
\* status of the response body ("incomplete" when the body has none), and a
\* terminal status returned earlier changes nothing: an update_checkout or
\* complete_checkout begun after it still sends its request once its
\* merchant is discovered, and returns what the merchant answers.
C15_StatusRelay ==
    \A t \in Tasks :
        /\ (GotBody(t) /\ call[t].op \in SessionOps) =>
              /\ result[t].kind = "returned"
              /\ result[t].value.status =
                    Field(resp[t].response.data, "status", <<"incomplete">>)
        /\ (hist[t].terminal /\ IsDone(t) /\ merchant[t] # NoProfile
            /\ call[t].op \in {"update_checkout", "complete_checkout"}) =>
              /\ \/ result[t] = Raised(RuntimeError)
                 \/ /\ sends[t] = 1
                    /\ req[t].method = IF call[t].op = "update_checkout"
                                       THEN "PATCH" ELSE "POST"
              /\ (resp[t].kind = "response"
                  /\ resp[t].response.status_code \in 200..299) =>
                    /\ result[t].kind = "returned"
                    /\ result[t].value.status =
                          Field(resp[t].response.data, "status",
                                IF call[t].op = "update_checkout"
                                THEN <<"incomplete">> ELSE <<"unknown">>)

\* after a completed session, update_checkout is sent and reports the
\* session as ready again
C15_Witness ==
    \E t \in Tasks :
        /\ hist[t].terminal
        /\ GotBody(t)
        /\ call[t].op = "update_checkout"
        /\ req[t].method = "PATCH"
        /\ "status" \in DOMAIN resp[t].response.data
        /\ resp[t].response.data.status = <<"ready">>
        /\ result[t].value.status = <<"ready">>

\* the patch of an update_checkout call is empty
EmptyPatch(kwargs) == DOMAIN kwargs = {"merchant_url"}

\* C16: against the merchant that stores sessions faithfully, an
\* update_checkout with an empty patch for the session that create_checkout
\* returned gives a session with the same id, the same currency and the same
\* number of line items.
C16_RoundTrip ==
    \A t \in Tasks :
        (env.faithful /\ GotBody(t) /\ call[t].op = "update_checkout"
         /\ EmptyPatch(call[t].kwargs) /\ created # NoSession
         /\ call[t].id = created.id) =>
            /\ result[t].kind = "returned"
            /\ result[t].value.id = created.id
            /\ result[t].value.currency = created.currency
            /\ Len(result[t].value.line_items) = created.line_items

\* two line items were sent, the merchant stored no currency, and a patch
\* that was not empty has been stored in between
C16_Witness ==
    \E t \in Tasks :
        /\ env.faithful
        /\ GotBody(t)
        /\ call[t].op = "update_checkout"
        /\ EmptyPatch(call[t].kwargs)
        /\ created = [id |-> <<"s1">>, currency |-> <<"USD">>,
                      line_items |-> 2]
        /\ "note" \in DOMAIN store
        /\ Len(result[t].value.line_items) = 2

\* C17: the cache is keyed by the merchant URL as given: a discover of
\* "https://m1/" on a client that has only "https://m1" in its cache (or
\* the other way round) is a miss; it sends a GET of its own to the same
\* well-known URL https://m1/.well-known/ucp and, when that succeeds, the
\* cache holds an entry of its own for the URL given.
C17_ExactUrlKey ==
    \A t \in Tasks :
        (call[t].op = "discover" /\ ~hist[t].known) =>
            /\ \/ gets[t] = 1
               \/ result[t] = Raised(RuntimeError)
            /\ gets[t] = 1 =>
                  req[t] = [method |-> "GET",
                            url |-> <<"https://m1", "/.well-known/ucp">>,
                            json |-> <<>>, inst |-> req[t].inst]
            /\ result[t].kind = "returned" =>
                  /\ call[t].merchant_url \in DOMAIN cache
                  /\ cache[call[t].merchant_url] = result[t].value

\* "https://m1" was cached first; the discover of "https://m1/" sent a GET
\* and the cache now has both keys, with profiles of their own
C17_Witness ==
    \E t \in Tasks :
        /\ IsDone(t)
        /\ call[t].op = "discover"
        /\ call[t].merchant_url = <<"https://m1", "/">>
        /\ hist[t].serial = 2
        /\ gets[t] = 1
        /\ result[t].kind = "returned"
        /\ DOMAIN cache = {<<"https://m1">>, <<"https://m1", "/">>}
        /\ cache[<<"https://m1">>] # cache[<<"https://m1", "/">>]

\* C18: every step that changes the cache is the return of a successful
\* well-known GET (of discover, or of the discover inside an operation) and
\* stores the profile under the URL of that call, leaving the other entries
\* as they are; no step of any operation (negotiate and close included)
\* removes a key.
C18_CacheWrittenByDiscoveryOnly ==
    [][/\ DOMAIN cache \subseteq DOMAIN cache'
       /\ cache' # cache =>
             \E t \in Tasks :
                 /\ pc[t] = "disc_wait"
                 /\ pc'[t] # "disc_wait"
                 /\ resp'[t].kind = "response"
                 /\ resp'[t].response.status_code \in 200..299
                 /\ DOMAIN cache' = DOMAIN cache \cup {call[t].merchant_url}
                 /\ \A u \in DOMAIN cache :
                       u # call[t].merchant_url => cache'[u] = cache[u]]_vars

\* the entry is still there when the fourth call, after a close, has
\* returned
C18_Witness ==
    \E t \in Tasks :
        /\ IsDone(t)
        /\ hist[t].serial = 4
        /\ call[t].op \in {"negotiate", "get_order", "complete_checkout"}
        /\ released # {}
        /\ DOMAIN cache = {<<"https://m1">>}
        /\ succeeded = {<<"https://m1">>}

\* C19 as stated: when close() has returned, the cache holds no profile.
C19_CloseClearsCache ==
    \A t \in Tasks :
        (IsDone(t) /\ call[t].op = "close") => DOMAIN cache = {}

\* C19 as amended: close() releases the transport only. When close() has
\* returned, the cache still holds an entry for every URL discovered with
\* success, and a discover(u) begun after a transport was released, for a
\* URL u cached before, sends no well-known request and returns the cached
\* profile.
C19_CloseKeepsCache ==
    \A t \in Tasks :
        /\ (IsDone(t) /\ call[t].op = "close") =>
              /\ DOMAIN cache = succeeded
              /\ result[t] = Returned(None)
        /\ (IsDone(t) /\ call[t].op = "discover" /\ hist[t].known
            /\ released # {}) =>
              /\ gets[t] = 0
              /\ req[t] = NoReq
              /\ call[t].merchant_url \in DOMAIN cache
              /\ result[t] = Returned(cache[call[t].merchant_url])

\* close() has released the transport and returned; both URLs are cached
C19_Witness ==
    \E t \in Tasks :
        /\ IsDone(t)
        /\ call[t].op = "close"
        /\ released = {1}
        /\ http = 0
        /\ DOMAIN cache = {<<"https://m1">>, <<"https://m1", "/">>}

\* the transport instances created and not released
Live == (1..ninst) \ released

\* C20 as stated: the client has at most one transport instance that is not
\* released; a request in flight is on the client's transport (or was, until
\* close() released it); no wire call of any operation is made on another
\* instance, so none is refused for being made on a released one; when
\* close() has returned the client has no transport; and a close() on a
\* client without transport does nothing.
C20_OneSharedTransport ==
    /\ Cardinality(Live) <= 1
    /\ http # 0 => (http \in Live \/ \E t \in Tasks : pc[t] = "close_wait")
    /\ \A t \in Tasks :
          /\ pc[t] \in {"disc_wait", "op_wait"} =>
                (req[t].inst = http \/ req[t].inst \in released)
          /\ result[t] # Raised(RuntimeError)
          /\ (IsDone(t) /\ call[t].op = "close") =>
                /\ http = 0
                /\ client[t] = 0 => req[t] = NoReq

\* C21 as stated: every line item of a session that create_checkout or
\* update_checkout returns has a quantity of at least 1, whatever the 2xx
\* body.
C21_QuantityPositive ==
    \A t \in Tasks :
        (GotBody(t) /\ call[t].op \in SessionOps
         /\ result[t].kind = "returned") =>
            \A i \in DOMAIN result[t].value.line_items :
                result[t].value.line_items[i].quantity >= 1

\* C22 as stated: every Order that complete_checkout or get_order returns
\* has an id that is not empty, whatever the 2xx body.
C22_OrderIdNonEmpty ==
    \A t \in Tasks :
        (GotBody(t) /\ call[t].op \in {"complete_checkout", "get_order"}
         /\ result[t].kind = "returned") =>
            result[t].value.id # <<>>

\* the path of the operation's endpoint below the REST endpoint
Path(c) ==
    CASE c.op = "create_checkout" -> <<"/checkout">>
      [] c.op = "update_checkout" -> <<"/checkout/">> \o c.id
      [] c.op = "complete_checkout" ->
            <<"/checkout/">> \o c.id \o <<"/complete">>
      [] c.op = "get_order" -> <<"/orders/">> \o c.id

\* the REST endpoint a well-known body advertises for the merchant URL u
Advertised(data, u) ==
    IF "merchant" \in DOMAIN data /\ "rest_endpoint" \in DOMAIN data.merchant
    THEN data.merchant.rest_endpoint
    ELSE u

StartsWith(s, prefix) ==
    /\ Len(s) >= Len(prefix)
    /\ SubSeq(s, 1, Len(prefix)) = prefix

\* C23: the request of create_checkout, update_checkout, complete_checkout
\* and get_order goes to the operation's path under the REST endpoint of the
\* discovered profile, without its trailing slashes; that endpoint is the
\* one the well-known body advertises, and the merchant URL of the call when
\* the body advertises none; a request is not sent under the merchant URL
\* when another REST endpoint is advertised.
C23_EndpointRouting ==
    \A t \in Tasks :
        (call[t].op \in WireOps /\ sends[t] = 1) =>
            /\ merchant[t] # NoProfile
            /\ req[t].url = rstrip(merchant[t].rest_endpoint) \o Path(call[t])
            /\ (pc[t] = "op_wait" /\ gets[t] = 1) =>
                  /\ resp[t].kind = "response"
                  /\ merchant[t].rest_endpoint =
                        Advertised(resp[t].response.data, call[t].merchant_url)
            /\ rstrip(merchant[t].rest_endpoint) # rstrip(call[t].merchant_url)
                  => ~StartsWith(req[t].url, rstrip(call[t].merchant_url))

\* the well-known body advertises https://api/ for https://m1/: the PATCH
\* goes to https://api/checkout/s1
C23_Witness ==
    \E t \in Tasks :
        /\ pc[t] = "op_wait"
        /\ call[t].op = "update_checkout"
        /\ call[t].merchant_url = <<"https://m1", "/">>
        /\ gets[t] = 1
        /\ sends[t] = 1
        /\ req[t].url = <<"https://api", "/checkout/", "s1">>

\* C24: two discover(u) calls for an uncached URL that overlap each send
\* their own well-known GET and each write the cache; at all times the
\* entry of a URL is the profile built from one well-known body, and when a
\* discover call has returned a profile, the entry of its URL is that
\* profile: the call that finishes last determines the entry.
C24_RacingDiscovery ==
    /\ \A u \in DOMAIN cache :
          \E b \in WellKnownBodies : cache[u] = MerchantProfile(b, u)
    /\ \A t \in Tasks :
          /\ (call[t].op = "discover" /\ ~hist[t].known) =>
                (gets[t] = 1 \/ result[t] = Raised(RuntimeError))
          /\ (IsDone(t) /\ call[t].op = "discover"
              /\ result[t].kind = "returned") =>
                /\ call[t].merchant_url \in DOMAIN cache
                /\ cache[call[t].merchant_url] = result[t].value
                /\ gets[t] = 1 =>
                      result[t].value =
                          MerchantProfile(resp[t].response.data,
                                          call[t].merchant_url)

\* of two overlapping discover calls for the same URL, each with a GET of
\* its own, one has returned and written its profile, the other is waiting
C24_Witness ==
    \E t1, t2 \in Tasks :
        /\ t1 # t2
        /\ IsDone(t1) /\ call[t1].op = "discover" /\ gets[t1] = 1
        /\ result[t1].kind = "returned"
        /\ pc[t2] = "disc_wait" /\ call[t2].op = "discover"
        /\ call[t2].merchant_url = call[t1].merchant_url
        /\ cache[call[t1].merchant_url] = result[t1].value

\* C25: the step in which a well-known GET ends with a non-2xx response or a
\* connection failure leaves the cache as it was and raises; and a
\* discover(u) that begins right after a failed discover(u) sends a
\* well-known GET of its own.
C25_FailedDiscoverLeavesCache ==
    [][\A t \in Tasks :
          /\ (pc[t] = "disc_wait" /\ pc'[t] # "disc_wait"
              /\ (\/ resp'[t].kind = "request_error"
                  \/ /\ resp'[t].kind = "response"
                     /\ resp'[t].response.status_code \notin 200..299)) =>
                /\ cache' = cache
                /\ pc'[t] = "done"
                /\ result'[t].kind = "raised"
          /\ (pc[t] = "idle" /\ pc'[t] # "idle" /\ call'[t].op = "discover"
              /\ prev # NoPrev /\ prev.failed
              /\ prev.url = call'[t].merchant_url) =>
                /\ call'[t].merchant_url \notin DOMAIN cache'
                /\ gets'[t] = 1
                /\ pc'[t] = "disc_wait"]_vars

\* the second discover of the URL, right after one that failed, is waiting
\* for its own GET
C25_Witness ==
    \E t \in Tasks :
        /\ call[t].op = "discover"
        /\ hist[t].after # NoPrev
        /\ hist[t].after.failed
        /\ hist[t].after.gets = 1
        /\ pc[t] = "disc_wait"
        /\ gets[t] = 1
        /\ call[t].merchant_url \notin DOMAIN cache

\* C26: a request to a checkout or order endpoint for the merchant URL u has
\* been sent only where u is a key of the cache, after a discovery of u on
\* this client has succeeded; an operation whose own well-known GET has
\* failed has sent no request to its endpoint and has raised.
C26_DiscoveryPrecedes ==
    \A t \in Tasks :
        call[t].op \in WireOps =>
            /\ sends[t] = 1 =>
                  /\ call[t].merchant_url \in DOMAIN cache
                  /\ call[t].merchant_url \in succeeded
                  /\ merchant[t] # NoProfile
            /\ (pc[t] = "op_wait" /\ gets[t] = 1) =>
                  /\ resp[t].kind = "response"
                  /\ resp[t].response.status_code \in 200..299
            /\ (sends[t] = 0 /\ WireCallFailed(t)) =>
                  /\ gets[t] = 1
                  /\ IsDone(t)
                  /\ result[t].kind = "raised"
                  /\ req[t].method = "GET"

\* two overlapping operations: the discovery inside one has failed and it
\* has sent nothing more, the other has sent its request after its own
\* discovery
C26_Witness ==
    \E t1, t2 \in Tasks :
        /\ IsDone(t1) /\ call[t1].op = "get_order"
        /\ gets[t1] = 1 /\ sends[t1] = 0 /\ WireCallFailed(t1)
        /\ pc[t2] = "op_wait" /\ call[t2].op = "update_checkout"
        /\ gets[t2] = 1 /\ sends[t2] = 1

\* C27 as stated: no operation makes a wire call on a transport instance
\* that close() has released. (The transport answers such a call with
\* RuntimeError and sends nothing.)
C27_NoUseOfReleasedTransport ==
    \A t \in Tasks :
        ~ /\ IsDone(t)
          /\ call[t].op \in WireOps \cup {"discover"}
          /\ result[t].kind = "raised"
          /\ result[t].error.type = "RuntimeError"

UngatedOps == {"update_checkout", "complete_checkout", "get_order"}

\* the profile names the capability dev.ucp.shopping.checkout
NamesCheckout(m) ==
    \E i \in DOMAIN m.capabilities :
        m.capabilities[i].name = <<"dev.ucp.shopping.checkout">>

\* C28: update_checkout, complete_checkout and get_order send their request
\* also when the discovered profile lacks dev.ucp.shopping.checkout, and
\* raise CapabilityError only for a response of the merchant that says so.
C28_GateOnlyInCreate ==
    \A t \in Tasks :
        call[t].op \in UngatedOps =>
            /\ (merchant[t] # NoProfile /\ ~NamesCheckout(merchant[t])) =>
                  \/ sends[t] = 1
                  \/ result[t] = Raised(RuntimeError)
            /\ (result[t].kind = "raised"
                /\ result[t].error.type = "CapabilityError") =>
                  /\ sends[t] = 1
                  /\ GotErrorResponse(t)
                  /\ resp[t].response.data.error.code
                        = <<"capability_not_supported">>

\* get_order for a merchant without the capability has been answered
C28_Witness ==
    \E t \in Tasks :
        /\ GotBody(t)
        /\ call[t].op = "get_order"
        /\ ~NamesCheckout(merchant[t])
        /\ result[t].kind = "returned"

\* the dict d without the key k
Without(d, k) == [x \in DOMAIN d \ {k} |-> d[x]]

\* C29: the body that update_checkout sends is the caller's keyword
\* arguments without merchant_url, and the body that complete_checkout
\* sends is those with the payment data under "payment"; no body has a
\* merchant_url field.
C29_MerchantUrlNotOnWire ==
    \A t \in Tasks :
        (call[t].op \in {"update_checkout", "complete_checkout"}
         /\ sends[t] = 1) =>
            /\ "merchant_url" \in DOMAIN call[t].kwargs
            /\ "merchant_url" \notin DOMAIN req[t].json
            /\ call[t].op = "update_checkout" =>
                  req[t].json = Without(call[t].kwargs, "merchant_url")
            /\ call[t].op = "complete_checkout" =>
                  /\ DOMAIN req[t].json =
                        {"payment"}
                        \cup (DOMAIN call[t].kwargs \ {"merchant_url"})
                  /\ req[t].json.payment = call[t].payment_data
                  /\ \A k \in DOMAIN call[t].kwargs \ {"merchant_url"} :
                        req[t].json[k] = call[t].kwargs[k]

\* complete_checkout with merchant_url and a note: the body has the payment
\* and the note
C29_Witness ==
    \E t \in Tasks :
        /\ pc[t] = "op_wait"
        /\ call[t].op = "complete_checkout"
        /\ DOMAIN call[t].kwargs = {"merchant_url", "note"}
        /\ DOMAIN req[t].json = {"payment", "note"}

\* the call of task t is the one the /checkout/complete handler makes:
\* complete_checkout without any keyword argument
FromHandler(t) ==
    /\ call[t].op = "complete_checkout"
    /\ call[t].kwargs = <<>>

====
